---- MODULE Spec2Model ----
(***************************************************************************)
(* A model of the repomind backend: the Express process (boot, connection  *)
(* flag, lazily built OpenAI client), the three MongoDB collections, the   *)
(* request handlers of the question, history, refactor and upload routers  *)
(* and the file-relevance retrieval of the AI service.                     *)
(*                                                                         *)
(* A handler is an async function: the code between two awaits runs        *)
(* without interruption, and handlers of different requests interleave at  *)
(* the awaits.  Each action below is one such segment: it begins where an  *)
(* awaited operation settles and ends where the next one is issued.        *)
(* Strings whose characters matter (questions, tags, paths, contents) are  *)
(* sequences of one-character strings.                                     *)
(***************************************************************************)
EXTENDS Integers, Sequences, FiniteSets, TLC

VARIABLES
    env,            \* process.env: which of MONGODB_URI, OPENAI_API_KEY are set
    server,         \* startServer: "init", "connecting", "listening", "exited"
    isConnected,    \* database.js: let isConnected
    caller,         \* a further caller of connectDatabase and where it stands
    connects,       \* number of mongoose.connect calls issued
    openaiClient,   \* aiService.js: let openaiClient (0 is null, n the n-th handle built)
    constructed,    \* number of new OpenAI(...) evaluations
    llmCalls,       \* number of chat.completions.create calls issued
    Codebase,       \* collection: records id, source, file_count, total_size
    CodeFile,       \* collection: records id, codebase_id, file_path, content, size
    Question,       \* collection: records id, codebase_id, created_at, tags
    nextId,         \* next ObjectId handed out
    now,            \* Date.now()
    req,            \* question / history / refactor requests, one record per slot
    started,        \* number of requests accepted so far
    up,             \* upload requests, one record per slot
    disk,           \* uploads directory: the paths that exist
    issued,         \* the ids uuidv4 has returned
    rFiles,         \* retrieval: the file list handed to answerQuestion
    rQuestion,      \* retrieval: the question
    rOut            \* retrieval: what answerQuestion computed before the LLM call

procVars == <<env, server, isConnected, caller, connects>>
aiVars == <<openaiClient, constructed, llmCalls>>
dbVars == <<Codebase, CodeFile, Question, nextId, now>>
reqVars == <<req, started>>
upVars == <<up, disk, issued>>
retrVars == <<rFiles, rQuestion, rOut>>
vars == <<env, server, isConnected, caller, connects, openaiClient, constructed,
          llmCalls, Codebase, CodeFile, Question, nextId, now, req, started,
          up, disk, issued, rFiles, rQuestion, rOut>>

(***************************************************************************)
(* Bounds of the model.                                                    *)
(***************************************************************************)
MaxRequests == 2         \* requests, uploads and further connectDatabase calls of one run
StoredQuestions == 10   \* questions of codebase c1 already stored at boot

ReqSlots == <<"r1", "r2">>
Reqs == {ReqSlots[i] : i \in 1..Len(ReqSlots)}    \* request slots: requests in flight at the same time

(***************************************************************************)
(* Program constants.                                                      *)
(***************************************************************************)
KeepCount == 10         \* deleteOldQuestions(codebaseId, 10)
MinQuestionLen == 5     \* question.trim().length < 5

(***************************************************************************)
(* Strings.                                                                *)
(***************************************************************************)
Whitespace == {" ", "\n"}

RECURSIVE TrimStart(_)
TrimStart(s) ==
    IF s # <<>> /\ Head(s) \in Whitespace THEN TrimStart(Tail(s)) ELSE s

RECURSIVE TrimEnd(_)
TrimEnd(s) ==
    IF s # <<>> /\ s[Len(s)] \in Whitespace
    THEN TrimEnd(SubSeq(s, 1, Len(s) - 1)) ELSE s

\* String.prototype.trim
Trim(s) == TrimEnd(TrimStart(s))

Max(a, b) == IF a >= b THEN a ELSE b
Min(a, b) == IF a <= b THEN a ELSE b

(***************************************************************************)
(* The process: startServer, connectDatabase and the connection flag.      *)
(***************************************************************************)
Alive == server # "exited"

\* What the run has taken so far: requests, uploads that were given an id,
\* further connectDatabase calls.
Taken == started + caller.n + Cardinality(issued)

connectDatabaseEnterNoGuard(flag, e) ==
    IF ~e.MONGODB_URI THEN "throw" ELSE "connect"

\* connectDatabase up to its await: "return" (the flag is set, nothing is
\* done), "throw" (MONGODB_URI is not defined) or "connect" (mongoose.connect
\* is issued).
connectDatabaseEnter(flag, e) ==
    IF flag THEN "return"
    ELSE IF ~e.MONGODB_URI THEN "throw"
    ELSE "connect"

\* startServer calls initDatabase, which calls connectDatabase.
StartServer ==
    /\ server = "init"
    /\ LET o == connectDatabaseEnter(isConnected, env) IN
        /\ server' = CASE o = "return" -> "listening"
                       [] o = "throw" -> "exited"
                       [] OTHER -> "connecting"
        /\ connects' = IF o = "connect" THEN connects + 1 ELSE connects
    /\ UNCHANGED <<env, isConnected, caller>>
    /\ UNCHANGED <<aiVars, dbVars, reqVars, upVars, retrVars>>

\* mongoose.connect resolved: the flag is set and app.listen is called.
ServerConnected ==
    /\ server = "connecting"
    /\ isConnected' = TRUE
    /\ server' = "listening"
    /\ UNCHANGED <<env, caller, connects>>
    /\ UNCHANGED <<aiVars, dbVars, reqVars, upVars, retrVars>>

\* mongoose.connect rejected: connectDatabase rethrows, startServer's catch
\* calls process.exit(1).
ServerConnectFailed ==
    /\ server = "connecting"
    /\ server' = "exited"
    /\ UNCHANGED <<env, isConnected, caller, connects>>
    /\ UNCHANGED <<aiVars, dbVars, reqVars, upVars, retrVars>>

\* connectDatabase and initDatabase are exported: a further call, made while
\* the process runs.
CallConnect ==
    /\ server \in {"connecting", "listening"}
    /\ caller.pc = "idle"
    /\ Taken < MaxRequests
    /\ LET o == connectDatabaseEnter(isConnected, env) IN
        /\ caller' = [pc |-> CASE o = "return" -> "returned"
                               [] o = "throw" -> "threw"
                               [] OTHER -> "connecting",
                      n |-> caller.n + 1,
                      flagAtCall |-> isConnected]
        /\ connects' = IF o = "connect" THEN connects + 1 ELSE connects
    /\ UNCHANGED <<env, server, isConnected>>
    /\ UNCHANGED <<aiVars, dbVars, reqVars, upVars, retrVars>>

CallConnected ==
    /\ Alive
    /\ caller.pc = "connecting"
    /\ isConnected' = TRUE
    /\ caller' = [caller EXCEPT !.pc = "returned"]
    /\ UNCHANGED <<env, server, connects>>
    /\ UNCHANGED <<aiVars, dbVars, reqVars, upVars, retrVars>>

CallConnectFailed ==
    /\ Alive
    /\ caller.pc = "connecting"
    /\ caller' = [caller EXCEPT !.pc = "threw"]
    /\ UNCHANGED <<env, server, isConnected, connects>>
    /\ UNCHANGED <<aiVars, dbVars, reqVars, upVars, retrVars>>

CallDone ==
    /\ Alive
    /\ caller.pc \in {"returned", "threw"}
    /\ caller' = [caller EXCEPT !.pc = "idle"]
    /\ UNCHANGED <<env, server, isConnected, connects>>
    /\ UNCHANGED <<aiVars, dbVars, reqVars, upVars, retrVars>>

(***************************************************************************)
(* The AI service's client handle.                                         *)
(***************************************************************************)
getOpenAIClientAlwaysNew(client, built, e) ==
    IF ~e.OPENAI_API_KEY
    THEN [threw |-> TRUE, client |-> client, constructed |-> built]
    ELSE [threw |-> FALSE, client |-> built + 1, constructed |-> built + 1]

\* getOpenAIClient: the handle returned (or threw), the module variable and
\* the number of clients built afterwards.
getOpenAIClient(client, built, e) ==
    IF client = 0
    THEN IF ~e.OPENAI_API_KEY
         THEN [threw |-> TRUE, client |-> client, constructed |-> built]
         ELSE [threw |-> FALSE, client |-> built + 1, constructed |-> built + 1]
    ELSE [threw |-> FALSE, client |-> client, constructed |-> built]

(***************************************************************************)
(* The collections.                                                        *)
(***************************************************************************)
QuestionsOf(Q, cb) == {q \in Q : q.codebase_id = cb}
FilesOf(F, cb) == {f \in F : f.codebase_id = cb}

SkippedIdsAscending(Q, cb, keep) ==
    LET S == QuestionsOf(Q, cb)
        n == Max(0, Cardinality(S) - keep)
    IN {D \in SUBSET {q.id : q \in S} :
            /\ Cardinality(D) = n
            /\ \A q1 \in S, q2 \in S :
                (q1.id \in D /\ q2.id \notin D) => q1.created_at >= q2.created_at}

\* deleteOldQuestions, the query: Question.find({codebase_id}).sort({created_at:
\* -1}).skip(keepCount), as the sets of ids it can return (the order among
\* equal created_at is the database's).
SkippedIds(Q, cb, keep) ==
    LET S == QuestionsOf(Q, cb)
        n == Max(0, Cardinality(S) - keep)
    IN {D \in SUBSET {q.id : q \in S} :
            /\ Cardinality(D) = n
            /\ \A q1 \in S, q2 \in S :
                (q1.id \in D /\ q2.id \notin D) => q1.created_at <= q2.created_at}

deleteManyNothing(coll, cb) == coll

\* CodeFile.deleteMany({codebase_id: id}), Question.deleteMany({codebase_id: id})
deleteManyOfCodebase(coll, cb) == {x \in coll : x.codebase_id # cb}

addTagToQuestionAll(Q, id, tag) == {[q EXCEPT !.tags = @ \cup {tag}] : q \in Q}

\* Question.findByIdAndUpdate(id, {$addToSet: {tags: tagName}})
addTagToQuestion(Q, id, tag) ==
    {IF q.id = id THEN [q EXCEPT !.tags = @ \cup {tag}] ELSE q : q \in Q}

\* Date.now(): the clock advances between two readings or it does not; only
\* the order of the readings matters, so it advances by one past a reading.
Tick ==
    /\ Alive
    /\ \/ \E q \in Question : q.created_at = now
       \/ \E r \in Reqs : req[r].pc = "insert" /\ req[r].stamp = now
    /\ now' = now + 1
    /\ UNCHANGED <<Codebase, CodeFile, Question, nextId>>
    /\ UNCHANGED <<procVars, aiVars, reqVars, upVars, retrVars>>

(***************************************************************************)
(* Requests of the question, history and refactor routers.                 *)
(***************************************************************************)
\* before: the questions of the codebase when POST /ask arrived, kept as
\* long as the request runs alone.
Idle == [kind |-> "none", pc |-> "idle", cb |-> "", question |-> <<>>,
         tags |-> <<>>, ti |-> 0, stamp |-> 0, qid |-> 0, toDelete |-> {},
         status |-> 0, log |-> <<>>, llm |-> 0, db |-> 0, handle |-> 0,
         alone |-> TRUE, existed |-> FALSE, error |-> "", before |-> {}]

\* A handler that has been called and has not ended.  One whose promise
\* rejected without a response ("lost") has ended.
InFlight(x) == x.pc \notin {"idle", "done", "lost"}

\* The upload slots after a request for codebase cb took a step: an upload
\* of that codebase that was in flight meanwhile did not run alone.
UpFlag(cb) ==
    [u \in DOMAIN up |-> IF InFlight(up[u]) /\ up[u].id = cb
                         THEN [up[u] EXCEPT !.alone = FALSE]
                         ELSE up[u]]

\* The slots after slot r took a step to rec: a request for the same
\* codebase that was in flight meanwhile did not run alone.
Step(r, rec) ==
    [s \in DOMAIN req |-> IF s = r THEN rec
                    ELSE IF InFlight(req[s]) /\ req[s].cb = rec.cb
                         THEN [req[s] EXCEPT !.alone = FALSE, !.before = {}]
                    ELSE req[s]]

\* A request is accepted into the first free slot.
Accept(r) ==
    /\ server = "listening"
    /\ req[r].pc = "idle"
    /\ \A i \in 1..Len(ReqSlots) :
          ReqSlots[i] = r => \A j \in 1..(i - 1) : req[ReqSlots[j]].pc # "idle"
    /\ Taken < MaxRequests
    /\ started' = started + 1

NoneElseInFlight(r, cb) ==
    /\ \A s \in DOMAIN req \ {r} : ~(InFlight(req[s]) /\ req[s].cb = cb)
    /\ \A u \in DOMAIN up : ~(InFlight(up[u]) /\ up[u].id = cb)

\* res.status(status).json(...) or res.json(...)
respond(rec, status) ==
    [rec EXCEPT !.pc = "done", !.status = status, !.log = Append(@, "respond")]

\* The bodies POST /ask is tried with.  An absent field and an empty string
\* are both falsy: "" and <<>> stand for either; absent tags and an empty
\* array both skip the loop.
AskCodebases == {"", "c1", "c2"}
AskQuestions == {<<>>,
                 <<"a", "b", "c", "d">>,
                 <<" ", "a", "b", "c", "d", " ">>,
                 <<" ", " ", " ", " ", " ">>,
                 <<" ", "a", "b", " ", "d", "e">>}
AskTags == {<<>>, << <<" ">>, <<"b", " ">> >>}

askValidationNoTrim(cb, q) ==
    IF cb = "" \/ q = <<>> THEN 400
    ELSE IF Len(q) < MinQuestionLen THEN 400
    ELSE 0

\* question.js, the validation: the status sent, 0 when the body passes.
askValidation(cb, q) ==
    IF cb = "" \/ q = <<>> THEN 400
    ELSE IF Len(Trim(q)) < MinQuestionLen THEN 400
    ELSE 0

\* The tag loop: the first index from i on whose tag is not blank, 0 if none.
RECURSIVE nextTag(_, _)
nextTag(tags, i) ==
    IF i > Len(tags) THEN 0
    ELSE IF Trim(tags[i]) # <<>> THEN i
    ELSE nextTag(tags, i + 1)

afterInsertNoTrim(rec, i) ==
    LET j == nextTag(rec.tags, i) IN
    IF j > 0
    THEN [rec EXCEPT !.pc = "tags", !.ti = j, !.db = @ + 1,
                     !.log = Append(@, "addTagToQuestion")]
    ELSE [rec EXCEPT !.pc = "done", !.status = 200, !.log = Append(@, "respond")]

\* After insertQuestion or an addTagToQuestion returned: the next tag is
\* added, or deleteOldQuestions is called.
afterInsert(rec, i) ==
    LET j == nextTag(rec.tags, i) IN
    IF j > 0
    THEN [rec EXCEPT !.pc = "tags", !.ti = j, !.db = @ + 1,
                     !.log = Append(@, "addTagToQuestion")]
    ELSE [rec EXCEPT !.pc = "findOld", !.ti = 0, !.db = @ + 1,
                     !.log = Append(@, "deleteOldQuestions")]

\* An awaited call of the handler returned.
returned(rec, what) == [rec EXCEPT !.log = Append(@, what)]

\* POST /ask arrives: validation, then answerQuestion is called, which
\* awaits getCodebaseFiles.
AskReceive(r) ==
    /\ Accept(r)
    /\ \E cb \in AskCodebases, q \in AskQuestions, tags \in AskTags :
        LET rec == [Idle EXCEPT !.kind = "ask", !.cb = cb, !.question = q,
                                !.tags = tags, !.log = <<"validate">>,
                                !.alone = NoneElseInFlight(r, cb),
                                !.before = IF NoneElseInFlight(r, cb)
                                           THEN QuestionsOf(Question, cb) ELSE {}]
            v == askValidation(cb, q)
        IN req' = Step(r, IF v # 0 THEN respond(rec, v)
                          ELSE [rec EXCEPT !.pc = "getFiles", !.db = 1,
                                           !.log = Append(@, "answerQuestion")])
    /\ UNCHANGED <<procVars, aiVars, dbVars, upVars, retrVars>>

NoFilesFoundNever(files) == FALSE

\* if (files.length === 0) throw new Error('No files found in codebase')
NoFilesFound(files) == files = {}

\* getCodebaseFiles returned: no files throws; else the prompt is built,
\* getOpenAIClient is called and the completion is requested.
AskFiles(r) ==
    /\ Alive
    /\ req[r].kind = "ask" /\ req[r].pc = "getFiles"
    /\ LET c == getOpenAIClient(openaiClient, constructed, env) IN
       IF NoFilesFound(FilesOf(CodeFile, req[r].cb))
       THEN /\ req' = Step(r, respond([req[r] EXCEPT
                                !.error = "No files found in codebase"], 500))
            /\ UNCHANGED aiVars
       ELSE IF c.threw
       THEN /\ req' = Step(r, respond(req[r], 500))
            /\ UNCHANGED aiVars
       ELSE /\ req' = Step(r, [req[r] EXCEPT !.pc = "llm", !.llm = @ + 1,
                                             !.handle = c.client])
            /\ openaiClient' = c.client
            /\ constructed' = c.constructed
            /\ llmCalls' = llmCalls + 1
    /\ UNCHANGED <<procVars, dbVars, started, upVars, retrVars>>

\* The completion arrived and parsed: answerQuestion returns and
\* insertQuestion builds the document (created_at defaults to Date.now) and
\* saves it.
AskAnswered(r) ==
    /\ Alive
    /\ req[r].kind = "ask" /\ req[r].pc = "llm"
    /\ req' = Step(r, [req[r] EXCEPT !.pc = "insert", !.stamp = now, !.db = @ + 1,
                                     !.log = @ \o <<"answerQuestion.ok", "insertQuestion">>])
    /\ UNCHANGED <<procVars, aiVars, dbVars, started, upVars, retrVars>>

\* save() returned.
AskInserted(r) ==
    /\ Alive
    /\ req[r].kind = "ask" /\ req[r].pc = "insert"
    /\ Question' = Question \cup {[id |-> nextId, codebase_id |-> req[r].cb,
                                   created_at |-> req[r].stamp, tags |-> {}]}
    /\ nextId' = nextId + 1
    /\ req' = Step(r, afterInsert(returned([req[r] EXCEPT !.qid = nextId],
                                            "insertQuestion.ok"), 1))
    /\ UNCHANGED <<Codebase, CodeFile, now>>
    /\ UNCHANGED <<procVars, aiVars, started, upVars, retrVars>>

\* addTagToQuestion returned.
AskTagged(r) ==
    /\ Alive
    /\ req[r].kind = "ask" /\ req[r].pc = "tags"
    /\ Question' = addTagToQuestion(Question, req[r].qid, Trim(req[r].tags[req[r].ti]))
    /\ req' = Step(r, afterInsert(returned(req[r], "addTagToQuestion.ok"),
                                   req[r].ti + 1))
    /\ UNCHANGED <<Codebase, CodeFile, nextId, now>>
    /\ UNCHANGED <<procVars, aiVars, started, upVars, retrVars>>

\* deleteOldQuestions: the query returned; with nothing to delete the
\* function returns and the success response is sent.
AskFoundOld(r) ==
    /\ Alive
    /\ req[r].kind = "ask" /\ req[r].pc = "findOld"
    /\ \E D \in SkippedIds(Question, req[r].cb, KeepCount) :
        req' = Step(r, IF D = {}
                       THEN respond(returned(req[r], "deleteOldQuestions.ok"), 200)
                       ELSE [req[r] EXCEPT !.pc = "deleteOld", !.toDelete = D,
                                           !.db = @ + 1])
    /\ UNCHANGED <<procVars, aiVars, dbVars, started, upVars, retrVars>>

\* deleteOldQuestions: deleteMany({_id: {$in: idsToDelete}}) returned.
AskDeletedOld(r) ==
    /\ Alive
    /\ req[r].kind = "ask" /\ req[r].pc = "deleteOld"
    /\ Question' = {q \in Question : q.id \notin req[r].toDelete}
    /\ req' = Step(r, respond(returned(req[r], "deleteOldQuestions.ok"), 200))
    /\ UNCHANGED <<Codebase, CodeFile, nextId, now>>
    /\ UNCHANGED <<procVars, aiVars, started, upVars, retrVars>>

\* DELETE /api/history/:codebaseId arrives, for an id GET /api/history lists
\* or another one: deleteCodebase issues CodeFile.deleteMany.
DeleteTargets == {"c9"}

DeleteReceive(r) ==
    /\ Accept(r)
    /\ \E cb \in DeleteTargets \cup {c.id : c \in Codebase} :
        req' = Step(r, [Idle EXCEPT !.kind = "delete", !.cb = cb, !.pc = "delFiles",
                                    !.db = 1, !.alone = NoneElseInFlight(r, cb),
                                    !.existed = (\E c \in Codebase : c.id = cb)])
    /\ UNCHANGED <<procVars, aiVars, dbVars, retrVars>>
    /\ up' = UpFlag(req'[r].cb)
    /\ UNCHANGED <<disk, issued>>

DeleteFiles(r) ==
    /\ Alive
    /\ req[r].kind = "delete" /\ req[r].pc = "delFiles"
    /\ CodeFile' = deleteManyOfCodebase(CodeFile, req[r].cb)
    /\ req' = Step(r, [req[r] EXCEPT !.pc = "delQuestions", !.db = @ + 1])
    /\ UNCHANGED <<Codebase, Question, nextId, now>>
    /\ UNCHANGED <<procVars, aiVars, started, retrVars>>
    /\ up' = UpFlag(req'[r].cb)
    /\ UNCHANGED <<disk, issued>>

DeleteQuestions(r) ==
    /\ Alive
    /\ req[r].kind = "delete" /\ req[r].pc = "delQuestions"
    /\ Question' = deleteManyOfCodebase(Question, req[r].cb)
    /\ req' = Step(r, [req[r] EXCEPT !.pc = "delCodebase", !.db = @ + 1])
    /\ UNCHANGED <<Codebase, CodeFile, nextId, now>>
    /\ UNCHANGED <<procVars, aiVars, started, retrVars>>
    /\ up' = UpFlag(req'[r].cb)
    /\ UNCHANGED <<disk, issued>>

\* findByIdAndDelete returned the document or null.
DeleteCodebase(r) ==
    /\ Alive
    /\ req[r].kind = "delete" /\ req[r].pc = "delCodebase"
    /\ Codebase' = {c \in Codebase : c.id # req[r].cb}
    /\ req' = Step(r, respond(req[r], IF \E c \in Codebase : c.id = req[r].cb
                                      THEN 200 ELSE 404))
    /\ UNCHANGED <<CodeFile, Question, nextId, now>>
    /\ UNCHANGED <<procVars, aiVars, started, retrVars>>
    /\ up' = UpFlag(req'[r].cb)
    /\ UNCHANGED <<disk, issued>>

\* POST /api/refactor arrives: code and language are required, then
\* generateRefactorSuggestions calls getOpenAIClient and requests the
\* completion.
RefactorReceive(r) ==
    /\ Accept(r)
    /\ \E bodyOk \in BOOLEAN :
        LET rec == [Idle EXCEPT !.kind = "refactor"]
            c == getOpenAIClient(openaiClient, constructed, env)
        IN IF ~bodyOk
           THEN /\ req' = Step(r, respond(rec, 400))
                /\ UNCHANGED aiVars
           ELSE IF c.threw
           THEN /\ req' = Step(r, respond(rec, 500))
                /\ UNCHANGED aiVars
           ELSE /\ req' = Step(r, [rec EXCEPT !.pc = "llm", !.llm = 1,
                                              !.handle = c.client])
                /\ openaiClient' = c.client
                /\ constructed' = c.constructed
                /\ llmCalls' = llmCalls + 1
    /\ UNCHANGED <<procVars, dbVars, upVars, retrVars>>

RefactorAnswered(r) ==
    /\ Alive
    /\ req[r].kind = "refactor" /\ req[r].pc = "llm"
    /\ req' = Step(r, respond(req[r], 200))
    /\ UNCHANGED <<procVars, aiVars, dbVars, started, upVars, retrVars>>

\* An awaited database or API call rejects (or the completion is not JSON):
\* the handler's catch sends 500.
AwaitRejects(r) ==
    /\ Alive
    /\ InFlight(req[r])
    /\ req' = Step(r, respond([req[r] EXCEPT !.error = "rejected"], 500))
    /\ UNCHANGED <<procVars, aiVars, dbVars, started, retrVars>>
    /\ up' = UpFlag(req'[r].cb)
    /\ UNCHANGED <<disk, issued>>

\* The response is on the wire; the slot takes the next request.
Finish(r) ==
    /\ Alive
    /\ req[r].pc = "done"
    /\ req' = [req EXCEPT ![r] = Idle]
    /\ UNCHANGED <<procVars, aiVars, dbVars, started, upVars, retrVars>>

(***************************************************************************)
(* The process with the question, history and refactor routers.            *)
(***************************************************************************)
StoredFiles ==
    {[id |-> <<"c1", 1>>, codebase_id |-> "c1", file_path |-> <<"a">>,
      content |-> <<"x">>, size |-> 1]}

Init ==
    /\ env \in [MONGODB_URI : BOOLEAN, OPENAI_API_KEY : BOOLEAN]
    /\ server = "init"
    /\ isConnected = FALSE
    /\ caller = [pc |-> "idle", n |-> 0, flagAtCall |-> FALSE]
    /\ connects = 0
    /\ openaiClient = 0
    /\ constructed = 0
    /\ llmCalls = 0
    /\ Codebase = {[id |-> "c1", source |-> "upload", file_count |-> 1, total_size |-> 1],
                   [id |-> "c2", source |-> "github", file_count |-> 0, total_size |-> 0]}
    /\ CodeFile = StoredFiles
    /\ Question = {[id |-> i, codebase_id |-> "c1", created_at |-> i, tags |-> {}] :
                        i \in 1..StoredQuestions}
                  \cup {[id |-> StoredQuestions + 1, codebase_id |-> "c2",
                         created_at |-> 1, tags |-> {}]}
    /\ nextId = StoredQuestions + 2
    /\ now = StoredQuestions + 1
    /\ req = [r \in Reqs |-> Idle]
    /\ started = 0
    /\ up = <<>>
    /\ disk = {}
    /\ issued = {}
    /\ rFiles = <<>>
    /\ rQuestion = <<>>
    /\ rOut = [state |-> "none"]

Next ==
    \/ StartServer
    \/ ServerConnected
    \/ ServerConnectFailed
    \/ Tick
    \/ \E r \in Reqs : AskReceive(r)
    \/ \E r \in Reqs : AskFiles(r)
    \/ \E r \in Reqs : AskAnswered(r)
    \/ \E r \in Reqs : AskInserted(r)
    \/ \E r \in Reqs : AskTagged(r)
    \/ \E r \in Reqs : AskFoundOld(r)
    \/ \E r \in Reqs : AskDeletedOld(r)
    \/ \E r \in Reqs : DeleteReceive(r)
    \/ \E r \in Reqs : DeleteFiles(r)
    \/ \E r \in Reqs : DeleteQuestions(r)
    \/ \E r \in Reqs : DeleteCodebase(r)
    \/ \E r \in Reqs : AwaitRejects(r)
    \/ \E r \in Reqs : Finish(r)

Spec == Init /\ [][Next]_vars

(***************************************************************************)
(* The process with its module state: the connection flag and the client   *)
(* handle, under the callers of connectDatabase and the two routers that   *)
(* reach getOpenAIClient.                                                  *)
(***************************************************************************)
NextProcess ==
    \/ StartServer
    \/ ServerConnected
    \/ ServerConnectFailed
    \/ CallConnect
    \/ CallConnected
    \/ CallConnectFailed
    \/ CallDone
    \/ \E r \in Reqs : AskReceive(r)
    \/ \E r \in Reqs : AskFiles(r)
    \/ \E r \in Reqs : AskAnswered(r)
    \/ \E r \in Reqs : AskInserted(r)
    \/ \E r \in Reqs : AskTagged(r)
    \/ \E r \in Reqs : AskFoundOld(r)
    \/ \E r \in Reqs : AskDeletedOld(r)
    \/ \E r \in Reqs : RefactorReceive(r)
    \/ \E r \in Reqs : RefactorAnswered(r)
    \/ \E r \in Reqs : AwaitRejects(r)
    \/ \E r \in Reqs : Finish(r)

SpecProcess == Init /\ [][NextProcess]_vars

(***************************************************************************)
(* Properties of the question and history routers.                         *)
(***************************************************************************)
\* Slot r sends its response in this step.
Completes(r) == req[r].pc # "done" /\ req'[r].pc = "done"

\* What C1 promises of the step in which slot r sends its response: at most
\* 10 questions of its codebase are stored, none of them older than one the
\* step removed, and the question the request inserted is one of them.
Retained(r) ==
    LET kept == QuestionsOf(Question', req'[r].cb)
        before == QuestionsOf(Question, req'[r].cb)
    IN /\ Cardinality(kept) <= KeepCount
       /\ \E q \in kept : q.id = req'[r].qid
       /\ \A q \in kept, d \in before \ kept : d.created_at <= q.created_at

\* C1 as amended: whenever a POST /ask for codebase C completes with the
\* success response and no other request for C was in flight at any time
\* while it ran, at most 10 questions of C are stored, they are the most
\* recently created ones, and the question the request inserted is one of
\* them.
C1_RetentionAlone ==
    [][\A r \in Reqs :
        (/\ Completes(r)
         /\ req'[r].kind = "ask"
         /\ req'[r].status = 200
         /\ req'[r].alone)
        => Retained(r)]_vars

C1_Witness ==
    \E r \in Reqs :
        /\ req[r].kind = "ask" /\ req[r].pc = "done" /\ req[r].status = 200
        /\ req[r].alone
        /\ req[r].toDelete # {}
        /\ Cardinality(QuestionsOf(Question, req[r].cb)) = KeepCount
        /\ \E q \in Question : q.id = req[r].qid /\ q.tags # {}

\* C1 as stated: whenever a POST /ask for codebase C completes with the
\* success response and no other request for C is in flight, at most 10
\* questions of C are stored, they are the most recently created ones, and
\* the question the request inserted is one of them.
C1_RetentionAfterAsk ==
    [][\A r \in Reqs :
        (/\ Completes(r)
         /\ req'[r].kind = "ask"
         /\ req'[r].status = 200
         /\ \A s \in Reqs \ {r} : ~(InFlight(req'[s]) /\ req'[s].cb = req'[r].cb))
        => Retained(r)]_vars

\* C2 as stated: after a DELETE /:codebaseId completes that no other request
\* for the codebase was interleaved with (requests for other codebases touch
\* none of its records), no
\* CodeFile, Question or Codebase record of that id remains, and the response
\* is success when the Codebase record existed and 404 when it did not.
C2_CascadeAlways ==
    [][\A r \in Reqs :
        (Completes(r) /\ req'[r].kind = "delete" /\ req'[r].alone)
        => /\ FilesOf(CodeFile', req'[r].cb) = {}
           /\ QuestionsOf(Question', req'[r].cb) = {}
           /\ ~\E c \in Codebase' : c.id = req'[r].cb
           /\ req'[r].status = IF req'[r].existed THEN 200 ELSE 404]_vars

\* C2 as amended: the same, for a DELETE none of whose three database
\* operations rejected; one that rejected is answered with 500.
C2_CascadeDelete ==
    [][\A r \in Reqs :
        (Completes(r) /\ req'[r].kind = "delete" /\ req'[r].alone)
        => /\ req'[r].status \in {200, 404, 500}
           /\ req'[r].status # 500 =>
                /\ FilesOf(CodeFile', req'[r].cb) = {}
                /\ QuestionsOf(Question', req'[r].cb) = {}
                /\ ~\E c \in Codebase' : c.id = req'[r].cb
                /\ req'[r].status = IF req'[r].existed THEN 200 ELSE 404]_vars

C2_Witness ==
    \E r \in Reqs :
        /\ req[r].kind = "delete" /\ req[r].pc = "done" /\ req[r].alone
        /\ req[r].existed /\ req[r].status = 200 /\ req[r].cb = "c1"
        /\ QuestionsOf(Question, "c1") = {} /\ FilesOf(CodeFile, "c1") = {}

\* The steps of POST /ask in the order of the handler's text.
Pipeline == <<"validate", "answerQuestion", "answerQuestion.ok",
              "insertQuestion", "insertQuestion.ok",
              "addTagToQuestion", "addTagToQuestion.ok",
              "deleteOldQuestions", "deleteOldQuestions.ok", "respond">>

Pos(e) == CHOOSE i \in 1..Len(Pipeline) : Pipeline[i] = e

Logged(rec, e) == \E i \in 1..Len(rec.log) : rec.log[i] = e

\* C4: within one POST /ask the steps occur in the order validate,
\* answerQuestion, insertQuestion, tag additions, deleteOldQuestions, respond;
\* insertQuestion is not called before answerQuestion returned, and the
\* success response is not sent before deleteOldQuestions returned.
C4_PipelineOrder ==
    \A r \in Reqs : req[r].kind = "ask" =>
        LET log == req[r].log IN
        /\ log # <<>> /\ log[1] = "validate"
        /\ \A i \in 1..Len(log) - 1 :
            \/ Pos(log[i]) < Pos(log[i + 1])
            \/ log[i] = "addTagToQuestion.ok" /\ log[i + 1] = "addTagToQuestion"
        /\ \A i \in 1..Len(log) :
            log[i] = "insertQuestion" => i > 1 /\ log[i - 1] = "answerQuestion.ok"
        /\ \A i \in 1..Len(log) :
            log[i] = "answerQuestion.ok" => req[r].llm = 1
        /\ (req[r].pc = "done" /\ req[r].status = 200) =>
            /\ Len(log) >= 2
            /\ log[Len(log)] = "respond"
            /\ log[Len(log) - 1] = "deleteOldQuestions.ok"
            /\ \A e \in {"answerQuestion", "answerQuestion.ok", "insertQuestion",
                         "insertQuestion.ok", "deleteOldQuestions"} : Logged(req[r], e)

C4_Witness ==
    \E r \in Reqs :
        /\ req[r].kind = "ask" /\ req[r].pc = "done" /\ req[r].status = 200
        /\ Logged(req[r], "addTagToQuestion.ok")
        /\ req[r].toDelete # {}

\* C5: a POST /ask whose codebaseId or question is missing or empty, or whose
\* question has fewer than 5 characters after trimming, is answered with 400
\* without an LLM call and without a database operation; a request that
\* passes both checks is never answered with 400.
C5_AskValidation ==
    \A r \in Reqs : req[r].kind = "ask" =>
        LET bad == \/ req[r].cb = ""
                   \/ req[r].question = <<>>
                   \/ Len(Trim(req[r].question)) < 5
        IN /\ bad => /\ req[r].pc = "done" /\ req[r].status = 400
                     /\ req[r].llm = 0 /\ req[r].db = 0
                     /\ req[r].log = <<"validate", "respond">>
           /\ ~bad => req[r].status # 400

C5_Witness ==
    \E r \in Reqs :
        /\ req[r].kind = "ask" /\ req[r].pc = "done" /\ req[r].status = 400
        /\ req[r].cb = "c1" /\ Len(req[r].question) >= 5

(***************************************************************************)
(* Properties of the module state.                                         *)
(***************************************************************************)
\* C7: over any sequence of answerQuestion and generateRefactorSuggestions
\* calls the client is built at most once and every call uses that one
\* handle; while OPENAI_API_KEY is unset getOpenAIClient throws, the handle
\* stays null and no LLM call is made.
C7_SingleClient ==
    /\ constructed <= 1
    /\ openaiClient = constructed
    /\ \A r \in Reqs : req[r].llm > 0 => req[r].handle = 1 /\ openaiClient = 1
    /\ llmCalls > 0 => constructed = 1
    /\ ~env.OPENAI_API_KEY =>
        /\ getOpenAIClient(openaiClient, constructed, env).threw
        /\ openaiClient = 0
        /\ llmCalls = 0
        /\ \A r \in Reqs : req[r].llm = 0

C7_Witness ==
    /\ constructed = 1
    /\ llmCalls = 2
    /\ \E r, s \in Reqs :
        /\ req[r].kind = "ask" /\ req[r].handle = 1
        /\ req[s].kind = "refactor" /\ req[s].handle = 1

\* C8: isConnected becomes true only when a mongoose.connect resolved and is
\* never reset; connectDatabase called with the flag set issues no connect;
\* a call that finds no MONGODB_URI or whose connect rejects leaves the flag
\* as it was and throws, and startServer then exits and never listens.
C8_ConnectionFlag ==
    /\ [](/\ server = "listening" => isConnected
          /\ ~env.MONGODB_URI => ~isConnected /\ connects = 0 /\ server \in {"init", "exited"}
          /\ isConnected => connects > 0)
    /\ [][/\ isConnected => isConnected'
          /\ (~isConnected /\ isConnected') =>
                \/ server = "connecting" /\ server' = "listening"
                \/ caller.pc = "connecting" /\ caller'.pc = "returned"
          /\ (caller.pc = "idle" /\ caller'.pc # "idle" /\ isConnected) =>
                connects' = connects /\ caller'.pc = "returned"
          /\ (caller'.pc = "threw" /\ caller.pc # "threw") => isConnected' = isConnected
          /\ (server' = "exited" /\ server # "exited") =>
                /\ isConnected' = isConnected
                /\ server \in {"init", "connecting"}
          /\ server = "exited" => server' = "exited"
          /\ (server' = "listening" /\ server # "listening") =>
                server = "connecting" /\ isConnected']_vars

C8_Witness ==
    /\ server = "listening" /\ isConnected
    /\ caller.pc = "returned" /\ caller.flagAtCall
    /\ connects = 1

\* C13: when a POST /ask has passed validation and getCodebaseFiles returns
\* no file for its codebaseId, answerQuestion throws 'No files found in
\* codebase' before any LLM call, the response has status 500, and the
\* request inserts and deletes no Question record.
C13_EmptyCodebase ==
    [][\A r \in DOMAIN req :
        (/\ req[r].kind = "ask" /\ req[r].pc = "getFiles"
         /\ req'[r].pc # "getFiles"
         /\ req'[r].error # "rejected"
         /\ FilesOf(CodeFile, req[r].cb) = {})
        => /\ req'[r].pc = "done" /\ req'[r].status = 500
           /\ req'[r].error = "No files found in codebase"
           /\ req'[r].llm = 0 /\ req'[r].handle = 0
           /\ llmCalls' = llmCalls /\ openaiClient' = openaiClient
           /\ req'[r].db = 1 /\ req'[r].qid = 0 /\ req'[r].toDelete = {}
           /\ Question' = Question]_vars

\* An ask for the codebase a DELETE has removed.
C13_Witness ==
    \E r \in DOMAIN req :
        /\ req[r].kind = "ask" /\ req[r].pc = "done" /\ req[r].status = 500
        /\ req[r].error = "No files found in codebase"
        /\ req[r].cb = "c1"
        /\ env.OPENAI_API_KEY
        /\ \A c \in Codebase : c.id # "c1"

\* The step on which POST /ask r sends an error response.
AskFails(r) ==
    Completes(r) /\ req'[r].kind = "ask" /\ req'[r].status \in {400, 500}

\* C16 as stated, for a request no other request for the codebase overlapped
\* with: whenever POST /ask responds with 400 or 500, the Question records
\* of the codebase are the same as before the request.
C16_FailedAskPersistsNothing ==
    [][\A r \in DOMAIN req :
        (AskFails(r) /\ req'[r].alone)
        => QuestionsOf(Question', req'[r].cb) = req'[r].before]_vars

\* C16 as amended: a POST /ask answered with 400 has called no database
\* operation; one answered with 400 or 500 before insertQuestion returned
\* has changed no Question record; one answered with 500 after
\* insertQuestion returned leaves the inserted question stored and has
\* changed no other Question record.
C16_FailedAsk ==
    [][\A r \in DOMAIN req :
        AskFails(r)
        => /\ req'[r].status = 400 => req'[r].qid = 0 /\ req'[r].db = 0
           /\ (req'[r].qid = 0 /\ req'[r].alone)
              => QuestionsOf(Question', req'[r].cb) = req'[r].before
           /\ (req'[r].qid # 0 /\ req'[r].alone)
              => \E q \in Question' :
                    /\ q.id = req'[r].qid
                    /\ q.codebase_id = req'[r].cb
                    /\ q \notin req'[r].before
                    /\ QuestionsOf(Question', req'[r].cb) = req'[r].before \cup {q}]_vars

C16_Witness ==
    \E r \in DOMAIN req :
        /\ req[r].kind = "ask" /\ req[r].pc = "done" /\ req[r].status = 500
        /\ req[r].alone
        /\ req[r].qid # 0
        /\ \E q \in Question : q.id = req[r].qid /\ q.tags # {}
        /\ Cardinality(QuestionsOf(Question, req[r].cb)) = Cardinality(req[r].before) + 1

(***************************************************************************)
(* The AI service's retrieval: extractKeywords, findRelevantFiles and      *)
(* buildContext.                                                           *)
(***************************************************************************)
MaxFiles == 9           \* files of the codebase retrieval is tried on

MatchLimit == 10        \* sorted.filter(f => f.score > 0).slice(0, 10)
FallbackLimit == 8      \* .slice(0, 8)
PathScore == 10         \* score += 10
MinKeywordLen == 2      \* word.length > 2
ContextLimit == 3000    \* file.content.length > 3000

LowerLetters == {"a", "b", "c", "d", "e", "f", "g", "h", "i", "j", "k", "l", "m",
                 "n", "o", "p", "q", "r", "s", "t", "u", "v", "w", "x", "y", "z"}
UpperToLower == [c \in {"A", "B", "C"} |->
                    CASE c = "A" -> "a" [] c = "B" -> "b" [] OTHER -> "c"]
Digits == {"0", "1", "2", "3", "4", "5", "6", "7", "8", "9"}

\* \w of a JavaScript regular expression
WordChar(c) == c \in LowerLetters \cup DOMAIN UpperToLower \cup Digits \cup {"_"}

\* String.prototype.toLowerCase, on the letters of the model's alphabet
Lower(s) ==
    [i \in 1..Len(s) |-> IF s[i] \in DOMAIN UpperToLower THEN UpperToLower[s[i]] ELSE s[i]]

\* .replace(/[^\w\s]/g, ' ')
Unpunctuate(s) ==
    [i \in 1..Len(s) |-> IF WordChar(s[i]) \/ s[i] \in Whitespace THEN s[i] ELSE " "]

\* .split(/\s+/): the pieces between runs of whitespace; a leading or a
\* trailing run leaves an empty piece.
RECURSIVE SplitFrom(_, _, _)
SplitFrom(s, i, piece) ==
    IF i > Len(s) THEN <<piece>>
    ELSE IF s[i] \in Whitespace
         THEN IF i > 1 /\ s[i - 1] \in Whitespace
              THEN SplitFrom(s, i + 1, piece)
              ELSE <<piece>> \o SplitFrom(s, i + 1, <<>>)
         ELSE SplitFrom(s, i + 1, Append(piece, s[i]))

SplitWhitespace(s) == SplitFrom(s, 1, <<>>)

StopWords ==
    {<<"w", "h", "a", "t">>, <<"w", "h", "e", "r", "e">>, <<"h", "o", "w">>,
     <<"w", "h", "e", "n">>, <<"w", "h", "y">>, <<"i", "s">>, <<"a", "r", "e">>,
     <<"t", "h", "e">>, <<"a">>, <<"a", "n">>, <<"i", "n">>, <<"o", "n">>,
     <<"a", "t">>, <<"t", "o">>, <<"f", "o", "r">>, <<"o", "f">>,
     <<"w", "i", "t", "h">>, <<"d", "o", "e", "s">>, <<"d", "o">>}

\* [...new Set(words)]: the first occurrence of each word, in order
RECURSIVE Distinct(_)
Distinct(ws) ==
    IF ws = <<>> THEN <<>>
    ELSE LET rest == Distinct(SubSeq(ws, 1, Len(ws) - 1))
             w == ws[Len(ws)]
         IN IF \E i \in 1..Len(rest) : rest[i] = w THEN rest ELSE Append(rest, w)

extractKeywordsWithDuplicates(question) ==
    SelectSeq(SplitWhitespace(Unpunctuate(Lower(question))),
              LAMBDA w : Len(w) > MinKeywordLen /\ w \notin StopWords)

extractKeywords(question) ==
    Distinct(SelectSeq(SplitWhitespace(Unpunctuate(Lower(question))),
                       LAMBDA w : Len(w) > MinKeywordLen /\ w \notin StopWords))

\* String.prototype.includes
Includes(hay, needle) ==
    \E i \in 1..(Len(hay) - Len(needle) + 1) :
        SubSeq(hay, i, i + Len(needle) - 1) = needle

\* (content.match(new RegExp(keyword, 'g')) || []).length for a keyword of
\* word characters: the occurrences found left to right without overlap
RECURSIVE CountMatches(_, _)
CountMatches(hay, needle) ==
    IF Len(hay) < Len(needle) THEN 0
    ELSE IF SubSeq(hay, 1, Len(needle)) = needle
         THEN 1 + CountMatches(SubSeq(hay, Len(needle) + 1, Len(hay)), needle)
         ELSE CountMatches(Tail(hay), needle)

RECURSIVE SumScores(_, _)
SumScores(file, keywords) ==
    IF keywords = <<>> THEN 0
    ELSE LET k == Lower(Head(keywords)) IN
         (IF Includes(Lower(file.file_path), k) THEN PathScore ELSE 0)
         + CountMatches(Lower(file.content), k)
         + SumScores(file, Tail(keywords))

\* Array.prototype.sort with a comparator b.k - a.k: stable, descending by k
RECURSIVE InsertDesc(_, _)
InsertDesc(sorted, x) ==
    IF sorted = <<>> THEN <<x>>
    ELSE IF sorted[Len(sorted)].k >= x.k THEN Append(sorted, x)
    ELSE Append(InsertDesc(SubSeq(sorted, 1, Len(sorted) - 1), x), sorted[Len(sorted)])

RECURSIVE SortDesc(_)
SortDesc(xs) ==
    IF xs = <<>> THEN <<>>
    ELSE InsertDesc(SortDesc(SubSeq(xs, 1, Len(xs) - 1)), xs[Len(xs)])

Take(xs, n) == SubSeq(xs, 1, Min(n, Len(xs)))

\* b.size || 0
SizeOrZero(f) == IF f.hasSize THEN f.size ELSE 0

findRelevantFilesNoFallback(files, question) ==
    LET keywords == extractKeywords(question)
        scored == [i \in 1..Len(files) |->
                      [k |-> SumScores(files[i], keywords), file |-> files[i]]]
    IN Take(SelectSeq(SortDesc(scored), LAMBDA x : x.k > 0), MatchLimit)

findRelevantFilesNoLimit(files, question) ==
    LET keywords == extractKeywords(question)
        scored == [i \in 1..Len(files) |->
                      [k |-> SumScores(files[i], keywords), file |-> files[i]]]
        matched == SelectSeq(SortDesc(scored), LAMBDA x : x.k > 0)
        bySize == [i \in 1..Len(files) |-> [k |-> SizeOrZero(files[i]), file |-> files[i]]]
    IN IF Len(matched) > 0 THEN matched
       ELSE Take(SortDesc(bySize), FallbackLimit)

\* findRelevantFiles: the files returned, each with the key it was ranked by
\* (the score, or the size in the fallback).
findRelevantFiles(files, question) ==
    LET keywords == extractKeywords(question)
        scored == [i \in 1..Len(files) |->
                      [k |-> SumScores(files[i], keywords), file |-> files[i]]]
        matched == Take(SelectSeq(SortDesc(scored), LAMBDA x : x.k > 0), MatchLimit)
        bySize == [i \in 1..Len(files) |-> [k |-> SizeOrZero(files[i]), file |-> files[i]]]
    IN IF Len(matched) > 0 THEN matched
       ELSE Take(SortDesc(bySize), FallbackLimit)

\* buildContext: the listing, one entry per file, or the fixed sentence.
buildContext(relevant) ==
    IF Len(relevant) = 0 THEN [empty |-> TRUE, entries |-> <<>>]
    ELSE [empty |-> FALSE,
          entries |-> [i \in 1..Len(relevant) |->
                [path |-> relevant[i].file.file_path,
                 content |-> IF Len(relevant[i].file.content) > ContextLimit
                             THEN SubSeq(relevant[i].file.content, 1, ContextLimit)
                             ELSE relevant[i].file.content]]]

\* The files and questions retrieval is tried on.
RetrievalFiles ==
    {[file_path |-> <<"A", "b", "c">>, content |-> <<"x">>, hasSize |-> TRUE, size |-> 2],
     [file_path |-> <<"x">>, content |-> <<"a", "b", "c", "a", "B", "c">>,
      hasSize |-> TRUE, size |-> 1],
     [file_path |-> <<"y">>, content |-> <<"z">>, hasSize |-> FALSE, size |-> 0]}

RetrievalQuestions ==
    {<<"t", "h", "e", " ", "A", "b", "?">>,
     <<"h", "o", "w", " ", " ", "A", "b", "c", "?", "a", "b", "c">>}

NotAsked == [state |-> "none", relevant |-> <<>>, context |-> [empty |-> TRUE, entries |-> <<>>]]

\* getCodebaseFiles returns one more stored file.
AddFile ==
    /\ rOut.state = "none"
    /\ Len(rFiles) < MaxFiles
    /\ \E f \in RetrievalFiles : rFiles' = Append(rFiles, f)
    /\ UNCHANGED <<rQuestion, rOut>>
    /\ UNCHANGED <<procVars, aiVars, dbVars, reqVars, upVars>>

\* answerQuestion up to the completion request: no files throws; else the
\* relevant files are chosen and the context is built and sent.
AnswerQuestion ==
    /\ rOut.state = "none"
    /\ rOut' = IF Len(rFiles) = 0
               THEN [NotAsked EXCEPT !.state = "threw"]
               ELSE LET relevant == findRelevantFiles(rFiles, rQuestion) IN
                    [state |-> "sent", relevant |-> relevant,
                     context |-> buildContext(relevant)]
    /\ UNCHANGED <<rFiles, rQuestion>>
    /\ UNCHANGED <<procVars, aiVars, dbVars, reqVars, upVars>>

InitRetrieval ==
    /\ env = [MONGODB_URI |-> TRUE, OPENAI_API_KEY |-> TRUE]
    /\ server = "listening"
    /\ isConnected = TRUE
    /\ caller = [pc |-> "idle", n |-> 0, flagAtCall |-> FALSE]
    /\ connects = 1
    /\ openaiClient = 0
    /\ constructed = 0
    /\ llmCalls = 0
    /\ Codebase = {}
    /\ CodeFile = {}
    /\ Question = {}
    /\ nextId = 1
    /\ now = 1
    /\ req = [r \in Reqs |-> Idle]
    /\ started = 0
    /\ up = <<>>
    /\ disk = {}
    /\ issued = {}
    /\ rFiles = <<>>
    /\ rQuestion \in RetrievalQuestions
    /\ rOut = NotAsked

NextRetrieval == AddFile \/ AnswerQuestion

SpecRetrieval == InitRetrieval /\ [][NextRetrieval]_vars

\* The keys of a result are in non-increasing order.
NonIncreasing(xs) == \A i \in 1..Len(xs) - 1 : xs[i].k >= xs[i + 1].k

\* How many entries of xs are the file f.
Occurrences(xs, f) == Cardinality({i \in 1..Len(xs) : xs[i] = f})

\* C6: when no file has a keyword score greater than 0, findRelevantFiles
\* returns the min(8, |files|) files of largest size in non-increasing size
\* order, a missing size counting as 0; so for every non-empty file list the
\* result is non-empty and answerQuestion sends no empty context.
C6_Fallback ==
    rOut.state = "sent" =>
        LET keywords == extractKeywords(rQuestion)
            out == rOut.relevant
            outFiles == [i \in 1..Len(out) |-> out[i].file]
            unscored == \A i \in 1..Len(rFiles) : SumScores(rFiles[i], keywords) = 0
        IN /\ rFiles # <<>>
           /\ out # <<>>
           /\ ~rOut.context.empty
           /\ Len(rOut.context.entries) = Len(out)
           /\ unscored =>
                /\ Len(out) = Min(8, Len(rFiles))
                /\ \A i \in 1..Len(out) : out[i].k = SizeOrZero(out[i].file)
                /\ NonIncreasing(out)
                /\ \A f \in RetrievalFiles :
                    /\ Occurrences(outFiles, f) <= Occurrences(rFiles, f)
                    /\ Occurrences(outFiles, f) < Occurrences(rFiles, f) =>
                        \A i \in 1..Len(out) : SizeOrZero(out[i].file) >= SizeOrZero(f)

C6_Witness ==
    /\ rOut.state = "sent"
    /\ Len(rFiles) = 9
    /\ Len(rOut.relevant) = 8
    /\ extractKeywords(rQuestion) # <<>>
    /\ \A i \in 1..Len(rFiles) : SumScores(rFiles[i], extractKeywords(rQuestion)) = 0

(***************************************************************************)
(* Retrieval over a codebase most of whose files match the question.       *)
(***************************************************************************)
MaxAdded == 4           \* files stored on top of ScoredBase

\* A file whose path holds the keyword abc and whose content holds xyz once.
PathFile == [file_path |-> <<"s", "/", "A", "b", "c">>, content |-> <<"x", "y", "z">>,
             hasSize |-> TRUE, size |-> 3]

\* A file whose content holds abc twice and, overlapping itself, aba.
ContentFile == [file_path |-> <<"x">>,
                content |-> <<"a", "b", "c", "A", "B", "C", "a", "b", "a", "b", "a">>,
                hasSize |-> TRUE, size |-> 11]

\* A file that holds no keyword.
OtherFile == [file_path |-> <<"y">>, content |-> <<"a", "b">>, hasSize |-> FALSE, size |-> 0]

ScoredFiles == {PathFile, ContentFile, OtherFile}

ScoredBase == <<ContentFile, PathFile, OtherFile, ContentFile, PathFile,
                ContentFile, ContentFile, PathFile>>

ScoredQuestions ==
    {<<"W", "h", "e", "r", "e", " ", "i", "s", " ", "A", "b", "c", ",", "x", "y", "z",
       " ", "a", "b", "c", "?">>,
     <<"a", "b", "a", " ", "A", "B", "C">>}

\* getCodebaseFiles returns one more stored file.
AddScoredFile ==
    /\ rOut.state = "none"
    /\ Len(rFiles) < Len(ScoredBase) + MaxAdded
    /\ \E f \in ScoredFiles : rFiles' = Append(rFiles, f)
    /\ UNCHANGED <<rQuestion, rOut>>
    /\ UNCHANGED <<procVars, aiVars, dbVars, reqVars, upVars>>

InitScored ==
    /\ env = [MONGODB_URI |-> TRUE, OPENAI_API_KEY |-> TRUE]
    /\ server = "listening"
    /\ isConnected = TRUE
    /\ caller = [pc |-> "idle", n |-> 0, flagAtCall |-> FALSE]
    /\ connects = 1
    /\ openaiClient = 0
    /\ constructed = 0
    /\ llmCalls = 0
    /\ Codebase = {}
    /\ CodeFile = {}
    /\ Question = {}
    /\ nextId = 1
    /\ now = 1
    /\ req = [r \in Reqs |-> Idle]
    /\ started = 0
    /\ up = <<>>
    /\ disk = {}
    /\ issued = {}
    /\ rFiles = ScoredBase
    /\ rQuestion \in ScoredQuestions
    /\ rOut = NotAsked

NextScored == AddScoredFile \/ AnswerQuestion

SpecScored == InitScored /\ [][NextScored]_vars

\* The positions of hay at which needle starts.
StartsOf(hay, needle) ==
    {i \in 1..(Len(hay) - Len(needle) + 1) : SubSeq(hay, i, i + Len(needle) - 1) = needle}

\* The number of occurrences of needle in hay: the most that can be taken
\* without two of them sharing a character.
OccurrencesIn(hay, needle) ==
    LET apart(S) == \A i, j \in S : i < j => j - i >= Len(needle)
        sizes == {Cardinality(S) : S \in {T \in SUBSET StartsOf(hay, needle) : apart(T)}}
    IN CHOOSE n \in sizes : \A m \in sizes : m <= n

RECURSIVE SumOver(_, _)
SumOver(K, file) ==
    IF K = {} THEN 0
    ELSE LET k == CHOOSE x \in K : TRUE IN
         (IF StartsOf(Lower(file.file_path), k) # {} THEN 10 ELSE 0)
         + OccurrencesIn(Lower(file.content), k)
         + SumOver(K \ {k}, file)

\* The score of a file: summed over the distinct keywords, 10 if the
\* lowercased path contains the keyword plus the occurrences of the keyword
\* in the lowercased content.
ScoreOf(file, question) ==
    LET kw == extractKeywords(question) IN
    SumOver({kw[i] : i \in 1..Len(kw)}, file)

\* C11: when at least one file has a score greater than 0, findRelevantFiles
\* returns at most 10 files, each with a score greater than 0, in
\* non-increasing score order, and no omitted file has a strictly higher
\* score than a returned one; the score is, summed over the distinct
\* keywords, 10 if the lowercased path contains the keyword plus the number
\* of occurrences of the keyword in the lowercased content.
C11_ScoredRetrieval ==
    (/\ rOut.state = "sent"
     /\ \E i \in 1..Len(rFiles) : ScoreOf(rFiles[i], rQuestion) > 0)
    => LET out == rOut.relevant
           outFiles == [i \in 1..Len(out) |-> out[i].file]
       IN /\ Len(out) <= 10
          /\ out # <<>>
          /\ \A i \in 1..Len(out) :
                /\ out[i].k = ScoreOf(out[i].file, rQuestion)
                /\ out[i].k > 0
          /\ NonIncreasing(out)
          /\ \A f \in ScoredFiles :
                /\ Occurrences(outFiles, f) <= Occurrences(rFiles, f)
                /\ Occurrences(outFiles, f) < Occurrences(rFiles, f) =>
                     \A i \in 1..Len(out) : out[i].k >= ScoreOf(f, rQuestion)

C11_Witness ==
    /\ rOut.state = "sent"
    /\ Len(extractKeywords(rQuestion)) = 2
    /\ Len(rOut.relevant) = 10
    /\ Cardinality({i \in 1..Len(rFiles) : ScoreOf(rFiles[i], rQuestion) > 0}) = 11
    /\ rOut.relevant[1].k > rOut.relevant[10].k
    /\ rFiles[Len(rFiles)] = PathFile

(***************************************************************************)
(* The keywords of a question.                                             *)
(***************************************************************************)
MaxQuestionLen == 9     \* a question this long is not typed further

\* The pieces questions are typed from: a stop word, a word, a short word of
\* a digit and an underscore, a blank and a punctuation mark.
QuestionPieces ==
    {<<"A", "r", "e">>, <<"A", "b", "c">>, <<"_", "1">>, <<" ">>, <<"?">>}

\* The files of the codebase the question is asked about.
KeywordFiles ==
    <<[file_path |-> <<"y">>, content |-> <<"z">>, hasSize |-> FALSE, size |-> 0],
      [file_path |-> <<"x">>, content |-> <<"a", "b", "c", "a", "B", "c">>,
       hasSize |-> TRUE, size |-> 1],
      [file_path |-> <<"A", "b", "c">>, content |-> <<"x">>, hasSize |-> TRUE, size |-> 2]>>

\* The question grows by one piece.
TypePiece ==
    /\ rOut.state = "none"
    /\ Len(rQuestion) < MaxQuestionLen
    /\ \E w \in QuestionPieces : rQuestion' = rQuestion \o w
    /\ UNCHANGED <<rFiles, rOut>>
    /\ UNCHANGED <<procVars, aiVars, dbVars, reqVars, upVars>>

\* findRelevantFiles is called: the keywords are extracted and the files
\* are chosen.
FindRelevantFiles ==
    /\ rOut.state = "none"
    /\ rOut' = [state |-> "found",
                keywords |-> extractKeywords(rQuestion),
                relevant |-> findRelevantFiles(rFiles, rQuestion)]
    /\ UNCHANGED <<rFiles, rQuestion>>
    /\ UNCHANGED <<procVars, aiVars, dbVars, reqVars, upVars>>

InitKeywords ==
    /\ env = [MONGODB_URI |-> TRUE, OPENAI_API_KEY |-> TRUE]
    /\ server = "listening"
    /\ isConnected = TRUE
    /\ caller = [pc |-> "idle", n |-> 0, flagAtCall |-> FALSE]
    /\ connects = 1
    /\ openaiClient = 0
    /\ constructed = 0
    /\ llmCalls = 0
    /\ Codebase = {}
    /\ CodeFile = {}
    /\ Question = {}
    /\ nextId = 1
    /\ now = 1
    /\ req = [r \in Reqs |-> Idle]
    /\ started = 0
    /\ up = <<>>
    /\ disk = {}
    /\ issued = {}
    /\ rFiles = KeywordFiles
    /\ rQuestion = <<>>
    /\ rOut = NotAsked

NextKeywords == TypePiece \/ FindRelevantFiles

SpecKeywords == InitKeywords /\ [][NextKeywords]_vars

\* The words of s: its longest runs of letters, digits and underscores.
WordsOf(s) ==
    LET word(c) == c \in LowerLetters \cup {"A", "B", "C"} \cup Digits \cup {"_"}
    IN {SubSeq(s, a, b) : <<a, b>> \in
          {<<i, j>> \in (1..Len(s)) \X (1..Len(s)) :
              /\ i <= j
              /\ \A k \in i..j : word(s[k])
              /\ i = 1 \/ ~word(s[i - 1])
              /\ j = Len(s) \/ ~word(s[j + 1])}}

\* The words of the question that are kept: lowercased, longer than 2 and
\* no stop word.
KeptWords(question) ==
    {w \in WordsOf(Lower(question)) : Len(w) > 2 /\ w \notin StopWords}

\* C12: extractKeywords returns a duplicate-free list of the lowercased words
\* of the question that are longer than 2 and no stop word, each made of
\* lowercase letters, digits and underscores only; a question of stop words,
\* short words and punctuation only yields the empty list, and
\* findRelevantFiles then returns the largest files.
C12_Keywords ==
    rOut.state = "found" =>
        LET kw == rOut.keywords
            out == rOut.relevant
        IN /\ \A i, j \in 1..Len(kw) : i # j => kw[i] # kw[j]
           /\ \A i \in 1..Len(kw) :
                /\ Len(kw[i]) > 2
                /\ kw[i] \notin StopWords
                /\ \A c \in 1..Len(kw[i]) :
                      kw[i][c] \in LowerLetters \cup Digits \cup {"_"}
           /\ {kw[i] : i \in 1..Len(kw)} = KeptWords(rQuestion)
           /\ KeptWords(rQuestion) = {} =>
                /\ kw = <<>>
                /\ Len(out) = Min(8, Len(rFiles))
                /\ NonIncreasing(out)
                /\ \A i \in 1..Len(out) : out[i].k = SizeOrZero(out[i].file)

C12_Witness ==
    /\ rOut.state = "found"
    /\ rQuestion = <<"A", "r", "e", " ", "A", "b", "c", "?", "A", "b", "c">>
    /\ rOut.keywords = << <<"a", "b", "c">> >>

\* A question of a stop word, a short word and punctuation only.
C12_WitnessNone ==
    /\ rOut.state = "found"
    /\ rQuestion = <<"A", "r", "e", "?", "_", "1", " ">>
    /\ rOut.keywords = <<>>
    /\ rOut.relevant[1].file = KeywordFiles[3]

(***************************************************************************)
(* The upload router: POST /zip, /github and /github-split.                *)
(***************************************************************************)
MaxFileBytes == 1048576 \* stats.size > 1024 * 1024

UpSlots == <<"u1", "u2">>
Ups == {UpSlots[i] : i \in 1..Len(UpSlots)}

Uuids == <<"k1", "k2", "k3", "k4">>

\* uuidv4(): an id it has not returned before
uuidv4(given) == Uuids[Cardinality(given) + 1]

\* A URL as the groups the router's pattern reads off it:
\* scheme :// [www.] host / owner / repo tail.  An absent repoUrl and an empty
\* one are both falsy: present = FALSE stands for either.
NoUrl == [present |-> FALSE, scheme |-> "", www |-> FALSE, host |-> "",
          owner |-> <<>>, repo |-> <<>>, tail |-> ""]

Url(scheme, www, host, owner, repo, tail) ==
    [present |-> TRUE, scheme |-> scheme, www |-> www, host |-> host,
     owner |-> owner, repo |-> repo, tail |-> tail]

GoodUrl == Url("https", TRUE, "github.com", <<"o", "-", "1">>, <<"r", ".", "g">>, "/")

GithubUrls ==
    {NoUrl,
     GoodUrl,
     Url("https", FALSE, "gitlab.com", <<"o">>, <<"r">>, ""),
     Url("http", FALSE, "github.com", <<"o", ".">>, <<>>, ""),
     Url("https", FALSE, "github.com", <<"o">>, <<"r">>, "/tree/main")}

githubRegexAnyHost(url) ==
    /\ url.scheme \in {"http", "https"}
    /\ url.owner # <<>>
    /\ \A i \in 1..Len(url.owner) : WordChar(url.owner[i]) \/ url.owner[i] = "-"
    /\ url.repo # <<>>
    /\ \A i \in 1..Len(url.repo) : WordChar(url.repo[i]) \/ url.repo[i] \in {".", "-"}
    /\ url.tail \in {"", "/"}

\* /^https?:\/\/(www\.)?github\.com\/[\w-]+\/[\w.-]+\/?$/.test(url)
githubRegex(url) ==
    /\ url.scheme \in {"http", "https"}
    /\ url.host = "github.com"
    /\ url.owner # <<>>
    /\ \A i \in 1..Len(url.owner) : WordChar(url.owner[i]) \/ url.owner[i] = "-"
    /\ url.repo # <<>>
    /\ \A i \in 1..Len(url.repo) : WordChar(url.repo[i]) \/ url.repo[i] \in {".", "-"}
    /\ url.tail \in {"", "/"}

\* What glob finds under an extracted archive or a cloned repository: per
\* file its path, its content, stats.size and whether statSync and
\* readFileSync succeed.
\* The bodies POST /github-split is tried with: frontendUrl, backendUrl.
SplitUrls ==
    {<<GoodUrl, GoodUrl>>,
     <<NoUrl, GoodUrl>>,
     <<GoodUrl, NoUrl>>,
     <<Url("https", FALSE, "gitlab.com", <<"o">>, <<"r">>, ""), GoodUrl>>,
     <<GoodUrl, Url("https", FALSE, "github.com", <<"o">>, <<"r">>, "/tree/main")>>}

Raw(path, content, size, readable) ==
    [path |-> path, content |-> content, size |-> size, readable |-> readable]

Trees ==
    {<<>>,
     <<Raw(<<"a", ".", "j", "s">>, <<"x">>, 1, TRUE),
       Raw(<<"b", ".", "j", "s">>, <<" ", "\n">>, 2, TRUE),
       Raw(<<"c", ".", "p", "y">>, <<"y", " ">>, 2, TRUE),
       Raw(<<"d", ".", "j", "s">>, <<"z">>, 1048577, TRUE),
       Raw(<<"e", ".", "j", "s">>, <<"w">>, 1, FALSE)>>}

RECURSIVE processCodeFilesSizeFirst(_)
processCodeFilesSizeFirst(raw) ==
    IF raw = <<>> THEN [files |-> <<>>, totalSize |-> 0]
    ELSE LET rest == processCodeFilesSizeFirst(SubSeq(raw, 1, Len(raw) - 1))
             f == raw[Len(raw)]
         IN IF ~f.readable \/ f.size > MaxFileBytes THEN rest
            ELSE IF Trim(f.content) = <<>>
            THEN [rest EXCEPT !.totalSize = @ + f.size]
            ELSE [files |-> Append(rest.files, [relativePath |-> f.path,
                                                content |-> f.content,
                                                size |-> f.size]),
                  totalSize |-> rest.totalSize + f.size]

\* processCodeFiles, the loop over the paths glob returned: a file that
\* cannot be read, is larger than 1MB or is blank is skipped.
RECURSIVE processCodeFiles(_)
processCodeFiles(raw) ==
    IF raw = <<>> THEN [files |-> <<>>, totalSize |-> 0]
    ELSE LET rest == processCodeFiles(SubSeq(raw, 1, Len(raw) - 1))
             f == raw[Len(raw)]
         IN IF ~f.readable \/ f.size > MaxFileBytes \/ Trim(f.content) = <<>>
            THEN rest
            ELSE [files |-> Append(rest.files, [relativePath |-> f.path,
                                                content |-> f.content,
                                                size |-> f.size]),
                  totalSize |-> rest.totalSize + f.size]

PrefixedNot(files, prefix) == files

\* relativePath: `frontend/${f.relativePath}`
Prefixed(files, prefix) ==
    [i \in 1..Len(files) |-> [files[i] EXCEPT !.relativePath = <<prefix>> \o @]]

insertCodebaseNoSave(C, id, source) == [ok |-> TRUE, coll |-> C]

\* insertCodebase: save() of a new document; _id is unique in a collection.
insertCodebase(C, id, source) ==
    IF \E c \in C : c.id = id
    THEN [ok |-> FALSE, coll |-> C]
    ELSE [ok |-> TRUE,
          coll |-> C \cup {[id |-> id, source |-> source,
                            file_count |-> 0, total_size |-> 0]}]

\* updateCodebaseStats: findByIdAndUpdate, which updates nothing when no
\* document has the id
updateCodebaseStats(C, id, fileCount, totalSize) ==
    {IF c.id = id THEN [c EXCEPT !.file_count = fileCount, !.total_size = totalSize]
     ELSE c : c \in C}

\* insertCodeFile skips a blank content and else saves the document.
SavesFile(file) == Trim(file.content) # <<>>

\* The upload loop: the first index from i on whose file insertCodeFile
\* saves, 0 if none.
RECURSIVE nextSave(_, _)
nextSave(files, i) ==
    IF i > Len(files) THEN 0
    ELSE IF SavesFile(files[i]) THEN i
    ELSE nextSave(files, i + 1)

IdleUp == [kind |-> "none", pc |-> "idle", url |-> NoUrl, url2 |-> NoUrl,
           id |-> "", tree |-> <<>>, tree2 |-> <<>>, files |-> <<>>,
           totalSize |-> 0, fi |-> 0, status |-> 0, respId |-> "",
           respCount |-> 0, respSize |-> 0, inserted |-> 0, db |-> 0,
           clones |-> 0, cloneFailed |-> FALSE, alone |-> TRUE,
           sent |-> 0, via |-> "", front |-> 0, back |-> 0,
           respFront |-> 0, respBack |-> 0, rmFailed |-> FALSE,
           scanned |-> FALSE]

\* req.file.path of the request that drew id, and the directory of an id.
ZipFile(id) == [kind |-> "zip", of |-> id]
Dir(id) == [kind |-> "dir", of |-> id]

unlinkSyncNothing(d, file) == d

\* fs.unlinkSync(path) that returned: the file is gone.
unlinkSync(d, file) == d \ {file}

\* safeRmDir(dirPath): rmSync removes the directory, or throws, which is
\* logged and not rethrown.
safeRmDir(d, dir, removes) == IF removes THEN d \ {dir} ELSE d

\* The slots after upload slot u took a step to rec.
UpStep(u, rec) ==
    /\ up' = [up EXCEPT ![u] = rec]
    /\ req' = [s \in DOMAIN req |-> IF InFlight(req[s]) /\ req[s].cb = rec.id /\ rec.id # ""
                              THEN [req[s] EXCEPT !.alone = FALSE, !.before = {}]
                              ELSE req[s]]

\* An upload is accepted into the first free slot.
UpAccept(u) ==
    /\ server = "listening"
    /\ up[u].pc = "idle"
    /\ \A i \in 1..Len(UpSlots) :
          UpSlots[i] = u => \A j \in 1..(i - 1) : up[UpSlots[j]].pc # "idle"
    /\ Taken < MaxRequests

\* res.status(status).json(...) in the handler.
upRespond(rec, status) ==
    [rec EXCEPT !.pc = "done", !.status = status, !.sent = @ + 1, !.via = "handler"]

\* res.json({ success: true, codebaseId, fileCount, ..., totalSize })
upSuccess(rec) ==
    [rec EXCEPT !.pc = "done", !.status = 200, !.respId = rec.id,
                !.respCount = Len(rec.files), !.respSize = rec.totalSize,
                !.respFront = rec.front, !.respBack = rec.back,
                !.sent = @ + 1, !.via = "handler"]

\* The global error handler: res.status(err.status || 500).json(...)
upForward(rec) ==
    [rec EXCEPT !.pc = "done", !.status = 500, !.sent = @ + 1, !.via = "errorHandler"]

\* The handler's promise rejected and nothing observes it: no response.
upLost(rec) == [rec EXCEPT !.pc = "lost"]

\* How the removal of the archive of /zip ends.  "unlinked": the
\* unlinkSync after the work returned.  "caught": the handler's catch ran
\* and its unlinkSync returned.  Else the unlinkSync of the catch threw, so
\* the promise of the async handler rejects: the router passes the error
\* to the global error handler ("forwarded", a router that awaits its
\* handlers) or does not observe it ("dropped", one that does not).
Unlinks == {"unlinked", "caught", "forwarded", "dropped"}
CatchUnlinks == {"caught", "forwarded", "dropped"}

\* The catch of POST /zip with the archive on disk, ending as how says.
zipCatch(rec, how) ==
    CASE how = "caught" -> upRespond(rec, 500)
      [] how = "forwarded" -> upForward(rec)
      [] OTHER -> upLost(rec)

zipDisk(d, file, how) ==
    IF how \in {"unlinked", "caught"} THEN unlinkSync(d, file) ELSE d

\* After insertCodebase or an insertCodeFile returned: the next file is
\* saved, or updateCodebaseStats is called.
afterCodebase(rec, i) ==
    LET j == nextSave(rec.files, i) IN
    IF j > 0 THEN [rec EXCEPT !.pc = "insFile", !.fi = j, !.db = @ + 1]
    ELSE [rec EXCEPT !.pc = "stats", !.fi = 0, !.db = @ + 1]

\* POST /zip arrives, multer having stored the file or found none: the
\* archive is extracted and processCodeFiles awaits glob.
ZipReceive(u) ==
    /\ UpAccept(u)
    /\ \E hasFile \in BOOLEAN, extracts \in BOOLEAN, tree \in Trees, how \in Unlinks :
        LET id == uuidv4(issued)
            rec == [IdleUp EXCEPT !.kind = "zip"]
            got == [rec EXCEPT !.id = id]
        IN IF ~hasFile
           THEN /\ how = "unlinked" /\ extracts /\ tree = <<>>
                /\ UpStep(u, upRespond(rec, 400))
                /\ UNCHANGED <<disk, issued>>
           ELSE IF ~extracts
           THEN /\ tree = <<>>
                /\ UpStep(u, IF how = "unlinked" THEN upRespond(got, 400)
                             ELSE zipCatch(got, how))
                /\ issued' = issued \cup {id}
                /\ disk' = zipDisk(disk \cup {ZipFile(id)}, ZipFile(id), how)
           ELSE /\ how = "unlinked"
                /\ UpStep(u, [got EXCEPT !.tree = tree, !.pc = "glob"])
                /\ issued' = issued \cup {id}
                /\ disk' = disk \cup {ZipFile(id), Dir(id)}
    /\ UNCHANGED <<procVars, aiVars, dbVars, started, retrVars>>

\* POST /github arrives: the URL is checked and the clone is started.
GithubReceive(u) ==
    /\ UpAccept(u)
    /\ \E url \in GithubUrls :
        LET id == uuidv4(issued)
            rec == [IdleUp EXCEPT !.kind = "github", !.url = url]
        IN IF ~url.present \/ ~githubRegex(url)
           THEN /\ UpStep(u, upRespond(rec, 400))
                /\ UNCHANGED <<disk, issued>>
           ELSE /\ UpStep(u, [rec EXCEPT !.id = id, !.pc = "clone", !.clones = 1])
                /\ issued' = issued \cup {id}
                /\ UNCHANGED disk
    /\ UNCHANGED <<procVars, aiVars, dbVars, started, retrVars>>

\* git.clone resolved: processCodeFiles awaits glob.
GithubCloned(u) ==
    /\ up[u].kind = "github" /\ up[u].pc = "clone"
    /\ \E tree \in Trees :
        UpStep(u, [up[u] EXCEPT !.tree = tree, !.pc = "glob"])
    /\ disk' = disk \cup {Dir(up[u].id)}
    /\ UNCHANGED issued
    /\ UNCHANGED <<procVars, aiVars, dbVars, started, retrVars>>

\* git.clone rejected: 400.
GithubCloneFailed(u) ==
    /\ up[u].kind = "github" /\ up[u].pc = "clone"
    /\ UpStep(u, upRespond([up[u] EXCEPT !.cloneFailed = TRUE], 400))
    /\ UNCHANGED <<disk, issued>>
    /\ UNCHANGED <<procVars, aiVars, dbVars, started, retrVars>>

\* POST /github-split arrives: both URLs are checked, the base directory is
\* made and the two clones are started.
SplitReceive(u) ==
    /\ UpAccept(u)
    /\ \E urls \in SplitUrls, mkdirOk \in BOOLEAN :
        LET id == uuidv4(issued)
            url == urls[1]
            url2 == urls[2]
            rec == [IdleUp EXCEPT !.kind = "split", !.url = url, !.url2 = url2]
        IN IF ~url.present \/ ~url2.present \/ ~githubRegex(url) \/ ~githubRegex(url2)
           THEN /\ UpStep(u, upRespond(rec, 400))
                /\ UNCHANGED <<disk, issued>>
           ELSE IF ~mkdirOk
           THEN /\ UpStep(u, upRespond([rec EXCEPT !.id = id], 500))
                /\ issued' = issued \cup {id}
                /\ UNCHANGED disk
           ELSE /\ UpStep(u, [rec EXCEPT !.id = id, !.pc = "clone", !.clones = 2])
                /\ issued' = issued \cup {id}
                /\ disk' = disk \cup {Dir(id)}
    /\ UNCHANGED <<procVars, aiVars, dbVars, started, retrVars>>

\* Both clones resolved: the two processCodeFiles calls await glob.
SplitCloned(u) ==
    /\ up[u].kind = "split" /\ up[u].pc = "clone"
    /\ \E tree \in Trees, tree2 \in Trees :
        /\ UpStep(u, [up[u] EXCEPT !.tree = tree, !.tree2 = tree2, !.pc = "glob"])
    /\ UNCHANGED <<disk, issued>>
    /\ UNCHANGED <<procVars, aiVars, dbVars, started, retrVars>>

\* One of the clones rejected: safeRmDir of the base directory, 400.
SplitCloneFailed(u) ==
    /\ up[u].kind = "split" /\ up[u].pc = "clone"
    /\ \E removes \in BOOLEAN :
        /\ UpStep(u, upRespond([up[u] EXCEPT !.cloneFailed = TRUE,
                                             !.rmFailed = ~removes], 400))
        /\ disk' = safeRmDir(disk, Dir(up[u].id), removes)
    /\ UNCHANGED issued
    /\ UNCHANGED <<procVars, aiVars, dbVars, started, retrVars>>

\* glob resolved: the files are read; /github-split with no file at all
\* answers 400; else insertCodebase is called.
Globbed(u) ==
    /\ up[u].pc = "glob"
    /\ LET a == processCodeFiles(up[u].tree)
           b == processCodeFiles(up[u].tree2)
           files == IF up[u].kind = "split"
                    THEN Prefixed(a.files, "frontend/") \o Prefixed(b.files, "backend/")
                    ELSE a.files
           rec == [up[u] EXCEPT !.files = files, !.totalSize = a.totalSize + b.totalSize,
                                !.scanned = TRUE,
                                !.front = IF up[u].kind = "split" THEN Len(a.files) ELSE 0,
                                !.back = IF up[u].kind = "split" THEN Len(b.files) ELSE 0]
       IN IF up[u].kind = "split" /\ Len(files) = 0
          THEN \E removes \in BOOLEAN :
               /\ UpStep(u, upRespond([rec EXCEPT !.rmFailed = ~removes], 400))
               /\ disk' = safeRmDir(disk, Dir(up[u].id), removes)
          ELSE /\ UpStep(u, [rec EXCEPT !.pc = "insCodebase", !.db = @ + 1])
               /\ UNCHANGED disk
    /\ UNCHANGED issued
    /\ UNCHANGED <<procVars, aiVars, dbVars, started, retrVars>>

\* insertCodebase returned; a duplicate _id rejects.
CodebaseInserted(u) ==
    /\ up[u].pc = "insCodebase"
    /\ LET source == CASE up[u].kind = "zip" -> "upload"
                       [] up[u].kind = "github" -> "github"
                       [] OTHER -> "github-split"
           ins == insertCodebase(Codebase, up[u].id, source)
       IN /\ ins.ok
          /\ Codebase' = ins.coll
          /\ UpStep(u, afterCodebase([up[u] EXCEPT !.inserted = @ + 1], 1))
    /\ UNCHANGED <<CodeFile, Question, nextId, now>>
    /\ UNCHANGED <<disk, issued>>
    /\ UNCHANGED <<procVars, aiVars, started, retrVars>>

\* insertCodeFile returned.
FileInserted(u) ==
    /\ up[u].pc = "insFile"
    /\ LET f == up[u].files[up[u].fi] IN
        CodeFile' = CodeFile \cup {[id |-> <<up[u].id, up[u].fi>>, codebase_id |-> up[u].id,
                                    file_path |-> f.relativePath,
                                    content |-> f.content, size |-> f.size]}
    /\ UpStep(u, afterCodebase(up[u], up[u].fi + 1))
    /\ UNCHANGED <<Codebase, Question, nextId, now>>
    /\ UNCHANGED <<disk, issued>>
    /\ UNCHANGED <<procVars, aiVars, started, retrVars>>

\* updateCodebaseStats returned: /zip unlinks the archive and the success
\* response is sent; an unlinkSync that throws enters the catch.
StatsUpdated(u) ==
    /\ up[u].pc = "stats"
    /\ Codebase' = updateCodebaseStats(Codebase, up[u].id, Len(up[u].files),
                                       up[u].totalSize)
    /\ \E how \in IF up[u].kind = "zip" THEN Unlinks ELSE {"unlinked"} :
        /\ UpStep(u, IF how = "unlinked" THEN upSuccess(up[u]) ELSE zipCatch(up[u], how))
        /\ disk' = IF up[u].kind = "zip" THEN zipDisk(disk, ZipFile(up[u].id), how)
                   ELSE disk
    /\ UNCHANGED issued
    /\ UNCHANGED <<CodeFile, Question, nextId, now>>
    /\ UNCHANGED <<procVars, aiVars, started, retrVars>>

\* glob or a database call rejects: the handler's catch cleans up (the
\* archive of /zip, the base directory of /github-split) and sends 500,
\* unless the unlinkSync of /zip throws.
UploadRejects(u) ==
    /\ up[u].pc \in {"glob", "insCodebase", "insFile", "stats"}
    /\ \E how \in IF up[u].kind = "zip" THEN CatchUnlinks ELSE {"caught"},
          removes \in IF up[u].kind = "split" THEN BOOLEAN ELSE {TRUE} :
        /\ UpStep(u, zipCatch([up[u] EXCEPT !.rmFailed = ~removes], how))
        /\ disk' = CASE up[u].kind = "zip" -> zipDisk(disk, ZipFile(up[u].id), how)
                     [] up[u].kind = "split" -> safeRmDir(disk, Dir(up[u].id), removes)
                     [] OTHER -> disk
    /\ UNCHANGED issued
    /\ UNCHANGED <<procVars, aiVars, dbVars, started, retrVars>>

\* The slot of an ended handler is free again.
UploadFinish(u) ==
    /\ up[u].pc \in {"done", "lost"}
    /\ up' = [up EXCEPT ![u] = IdleUp]
    /\ UNCHANGED <<disk, issued, req>>
    /\ UNCHANGED <<procVars, aiVars, dbVars, started, retrVars>>

UploadSlots(slots, requests) ==
    /\ env = [MONGODB_URI |-> TRUE, OPENAI_API_KEY |-> TRUE]
    /\ server = "listening"
    /\ isConnected = TRUE
    /\ caller = [pc |-> "idle", n |-> 0, flagAtCall |-> FALSE]
    /\ connects = 1
    /\ openaiClient = 0
    /\ constructed = 0
    /\ llmCalls = 0
    /\ Codebase = {}
    /\ CodeFile = {}
    /\ Question = {}
    /\ nextId = 1
    /\ now = 1
    /\ req = [r \in requests |-> Idle]
    /\ started = 0
    /\ up = [u \in slots |-> IdleUp]
    /\ disk = {}
    /\ issued = {}
    /\ rFiles = <<>>
    /\ rQuestion = <<>>
    /\ rOut = NotAsked

\* The server listening on an empty database, taking the uploads of one
\* archive or repository (POST /zip, POST /github) only.
InitUpload == UploadSlots(Ups, {})

NextUpload ==
    \/ \E u \in DOMAIN up : ZipReceive(u)
    \/ \E u \in DOMAIN up : GithubReceive(u)
    \/ \E u \in DOMAIN up : GithubCloned(u)
    \/ \E u \in DOMAIN up : GithubCloneFailed(u)
    \/ \E u \in DOMAIN up : Globbed(u)
    \/ \E u \in DOMAIN up : CodebaseInserted(u)
    \/ \E u \in DOMAIN up : FileInserted(u)
    \/ \E u \in DOMAIN up : StatsUpdated(u)
    \/ \E u \in DOMAIN up : UploadRejects(u)
    \/ \E u \in DOMAIN up : UploadFinish(u)

SpecUpload == InitUpload /\ [][NextUpload]_vars

\* The same server taking POST /github-split only.
InitSplit == UploadSlots(Ups, {})

NextSplit ==
    \/ \E u \in DOMAIN up : SplitReceive(u)
    \/ \E u \in DOMAIN up : SplitCloned(u)
    \/ \E u \in DOMAIN up : SplitCloneFailed(u)
    \/ \E u \in DOMAIN up : Globbed(u)
    \/ \E u \in DOMAIN up : CodebaseInserted(u)
    \/ \E u \in DOMAIN up : FileInserted(u)
    \/ \E u \in DOMAIN up : StatsUpdated(u)
    \/ \E u \in DOMAIN up : UploadRejects(u)
    \/ \E u \in DOMAIN up : UploadFinish(u)

SpecSplit == InitSplit /\ [][NextSplit]_vars

\* The same server taking one upload and one DELETE /api/history/:codebaseId
\* at a time.
InitUploadDelete == UploadSlots({UpSlots[1]}, {ReqSlots[1]})

NextUploadDelete ==
    \/ \E u \in DOMAIN up : ZipReceive(u)
    \/ \E u \in DOMAIN up : GithubReceive(u)
    \/ \E u \in DOMAIN up : GithubCloned(u)
    \/ \E u \in DOMAIN up : GithubCloneFailed(u)
    \/ \E u \in DOMAIN up : SplitReceive(u)
    \/ \E u \in DOMAIN up : SplitCloned(u)
    \/ \E u \in DOMAIN up : SplitCloneFailed(u)
    \/ \E u \in DOMAIN up : Globbed(u)
    \/ \E u \in DOMAIN up : CodebaseInserted(u)
    \/ \E u \in DOMAIN up : FileInserted(u)
    \/ \E u \in DOMAIN up : StatsUpdated(u)
    \/ \E u \in DOMAIN up : UploadRejects(u)
    \/ \E u \in DOMAIN up : UploadFinish(u)
    \/ \E r \in DOMAIN req : DeleteReceive(r)
    \/ \E r \in DOMAIN req : DeleteFiles(r)
    \/ \E r \in DOMAIN req : DeleteQuestions(r)
    \/ \E r \in DOMAIN req : DeleteCodebase(r)
    \/ \E r \in DOMAIN req : AwaitRejects(r)
    \/ \E r \in DOMAIN req : Finish(r)

SpecUploadDelete == InitUploadDelete /\ [][NextUploadDelete]_vars


\* The step on which upload u sends the success response.
UpSucceeds(u) == up[u].pc # "done" /\ up'[u].pc = "done" /\ up'[u].status = 200

C9_Rejected == GithubUrls \ {GoodUrl}

\* C9: POST /github with a missing repoUrl or one that does not match the
\* pattern is answered with 400 at once, no clone attempted; one whose clone
\* fails is answered with 400; in all three cases the request has called no
\* database operation and no Codebase or CodeFile record of its id exists.
C9_GithubRejection ==
    [][\A u \in DOMAIN up :
        /\ (up[u].pc = "idle" /\ up'[u].kind = "github" /\ up'[u].url \in C9_Rejected)
           => up'[u].pc = "done" /\ up'[u].status = 400 /\ up'[u].clones = 0
        /\ (up[u].kind = "github" /\ up[u].pc = "clone" /\ up'[u].cloneFailed)
           => up'[u].pc = "done" /\ up'[u].status = 400
        /\ (/\ up'[u].kind = "github"
            /\ up[u].pc # "done" /\ up'[u].pc = "done"
            /\ up'[u].url \in C9_Rejected \/ up'[u].cloneFailed)
           => /\ up'[u].db = 0 /\ up'[u].inserted = 0
              /\ Codebase' = Codebase /\ CodeFile' = CodeFile
              /\ \A c \in Codebase' : c.id # up'[u].id
              /\ \A f \in CodeFile' : f.codebase_id # up'[u].id]_vars

C9_Witness ==
    \E u, v \in DOMAIN up :
        /\ up[u].kind = "github" /\ up[u].pc = "done" /\ up[u].status = 400
        /\ up[u].cloneFailed /\ up[u].clones = 1
        /\ up[v].kind = "github" /\ up[v].pc = "done" /\ up[v].status = 400
        /\ up[v].url.present /\ up[v].url \in C9_Rejected /\ up[v].clones = 0
        /\ Codebase # {}

RECURSIVE SumSizes(_)
SumSizes(F) ==
    IF F = {} THEN 0
    ELSE LET f == CHOOSE x \in F : TRUE IN f.size + SumSizes(F \ {f})

\* The Codebase record of the response of rec agrees with the stored files
\* F and with the response.
StatsAgree(rec, C, F) ==
    \E c \in C :
        /\ c.id = rec.respId
        /\ c.file_count = Cardinality(FilesOf(F, rec.respId))
        /\ c.total_size = SumSizes(FilesOf(F, rec.respId))
        /\ c.file_count = rec.respCount
        /\ c.total_size = rec.respSize

\* C10 as amended: whenever an upload answers success for codebase C and no
\* DELETE for C was in flight at any time while the upload ran, the Codebase
\* record's file_count is the number of CodeFile records of C, its
\* total_size the sum of their sizes, and both are the fileCount and
\* totalSize of the response.
C10_StatsAlone ==
    [][\A u \in DOMAIN up :
        (UpSucceeds(u) /\ up'[u].alone)
        => StatsAgree(up'[u], Codebase', CodeFile')]_vars

C10_Witness ==
    \E u \in DOMAIN up :
        /\ up[u].pc = "done" /\ up[u].status = 200 /\ up[u].alone
        /\ up[u].respCount = 2 /\ up[u].respSize = 3
        /\ StatsAgree(up[u], Codebase, CodeFile)
        /\ \E r \in DOMAIN req : req[r].kind = "delete" /\ InFlight(req[r])

\* C10 as stated: whenever an upload answers success for codebase C, the
\* Codebase record's file_count is the number of CodeFile records of C, its
\* total_size the sum of their sizes, and both are the fileCount and
\* totalSize of the response.
C10_StatsAlways ==
    [][\A u \in DOMAIN up :
        UpSucceeds(u) => StatsAgree(up'[u], Codebase', CodeFile')]_vars


\* The step on which upload u is sent its response.
UpCompletes(u) == up[u].pc # "done" /\ up'[u].pc = "done"

\* The POST /zip request in slot u received a file: uuidv4 was called.
ZipWithFile(x) == x.kind = "zip" /\ x.id # ""

RecordsOf(C, F, id) == {c \in C : c.id = id} \cup {f \in F : f.codebase_id = id}

\* The /github-split request failed at the clone stage or found no file.
SplitFailsEarly(x) ==
    /\ x.kind = "split"
    /\ \/ x.cloneFailed
       \/ /\ x.scanned
          /\ processCodeFiles(x.tree).files = <<>>
          /\ processCodeFiles(x.tree2).files = <<>>

\* On success every stored path of the codebase starts with 'frontend/' or
\* 'backend/' and the counts of the response add up.
SplitSuccess(x, F) ==
    /\ \A f \in F : f.codebase_id = x.id => f.file_path[1] \in {"frontend/", "backend/"}
    /\ x.respFront = Len(processCodeFiles(x.tree).files)
    /\ x.respBack = Len(processCodeFiles(x.tree2).files)
    /\ x.respCount = x.respFront + x.respBack

\* C15 as stated: a /github-split request one of whose clones fails, or
\* whose repositories yield no processable file, is answered 400 with the
\* temp directory of its id removed and no Codebase or CodeFile record
\* created; on success every stored file_path starts with 'frontend/' or
\* 'backend/' and fileCount = frontendFileCount + backendFileCount.
C15_SplitAllOrNothing ==
    [][\A u \in DOMAIN up :
        /\ (UpCompletes(u) /\ SplitFailsEarly(up'[u]))
           => /\ up'[u].status = 400
              /\ Dir(up'[u].id) \notin disk'
              /\ RecordsOf(Codebase', CodeFile', up'[u].id) = {}
              /\ Codebase' = Codebase /\ CodeFile' = CodeFile
        /\ (UpCompletes(u) /\ up'[u].kind = "split" /\ up'[u].status = 200)
           => SplitSuccess(up'[u], CodeFile')]_vars

\* C15, amended: such a request is answered 400 after safeRmDir of the temp
\* directory, which removes it unless rmSync throws (then the directory
\* stays), with no Codebase or CodeFile record created; on success every
\* stored file_path starts with 'frontend/' or 'backend/' and fileCount =
\* frontendFileCount + backendFileCount.
C15_Split ==
    [][\A u \in DOMAIN up :
        /\ (UpCompletes(u) /\ SplitFailsEarly(up'[u]))
           => /\ up'[u].status = 400
              /\ Dir(up[u].id) \in disk
              /\ Dir(up'[u].id) \in disk' <=> up'[u].rmFailed
              /\ up'[u].inserted = 0 /\ up'[u].db = 0
              /\ RecordsOf(Codebase', CodeFile', up'[u].id) = {}
              /\ Codebase' = Codebase /\ CodeFile' = CodeFile
        /\ (UpCompletes(u) /\ up'[u].kind = "split" /\ up'[u].status = 200)
           => SplitSuccess(up'[u], CodeFile')]_vars

\* One /github-split request was answered 400 after a clone failed, its
\* directory removed; another succeeded with files of both repositories
\* stored under their prefixes.
C15_Witness ==
    \E u, v \in DOMAIN up :
        /\ up[u].kind = "split" /\ up[u].pc = "done" /\ up[u].status = 400
        /\ up[u].cloneFailed /\ ~up[u].rmFailed /\ Dir(up[u].id) \notin disk
        /\ up[v].kind = "split" /\ up[v].pc = "done" /\ up[v].status = 200
        /\ up[v].respFront > 0 /\ up[v].respBack > 0
        /\ \E f, g \in CodeFile : /\ f.codebase_id = up[v].id /\ f.file_path[1] = "frontend/"
                                   /\ g.codebase_id = up[v].id /\ g.file_path[1] = "backend/"

\* The responses a request of the question, history and refactor routes
\* was sent.
Responses(x) == Cardinality({i \in DOMAIN x.log : x.log[i] = "respond"})

\* C17: a request whose handler has ended was sent exactly one response, and
\* no request is ever sent two.
C17_ExactlyOneResponse ==
    /\ \A u \in DOMAIN up :
        /\ up[u].sent <= 1
        /\ up[u].pc \in {"done", "lost"} => up[u].sent = 1
    /\ \A r \in DOMAIN req :
        /\ Responses(req[r]) <= 1
        /\ req[r].pc = "done" => Responses(req[r]) = 1

====
